---- MODULE Spec2Model ----
(***************************************************************************)
(* Model of src/scripts/lightgbm_cli/score.py: one execution of main(),    *)
(* which parses the command line, and of run(), which creates the output   *)
(* directory, checks the executable, builds the LightGBM command, runs it  *)
(* as a subprocess inside a LogTimeBlock and prints what it captured.      *)
(*                                                                         *)
(* A string is a sequence of fragments: a path is a sequence of one-letter *)
(* fragments and separators, a literal of the script is one fragment.      *)
(***************************************************************************)
EXTENDS Integers, Sequences, FiniteSets, TLC

VARIABLES
    cli,                \* the raw command-line options given to main()
    args,               \* the argparse namespace run() works on (run() overwrites args.output)
    dirs0,              \* the directories that existed when main() was entered
    dirs,               \* the directories that exist now
    pc,                 \* the position of the calling thread in main()/run()
    exc,                \* the exception that is propagating, or NoExc
    lightgbm_cli_command, \* the list built at lines 70-78
    proc,               \* the external process: state, command line, output, exit code
    nstarted,           \* how many subprocesses were started
    lightgbm_cli_call,  \* the CompletedProcess returned by subprocess_run, or NoCall
    printed,            \* the lines print() has written, oldest first
    clock,              \* wall-clock time
    block,              \* the LogTimeBlock: entered, start time
    metrics,            \* the records the LogTimeBlock has emitted on exit
    exitStatus          \* the exit status of the component's process, or -1 while it runs

vars == <<cli, args, dirs0, dirs, pc, exc, lightgbm_cli_command, proc, nstarted,
          lightgbm_cli_call, printed, clock, block, metrics, exitStatus>>

(***************************************************************************)
(* Bounds and sample inputs                                                *)
(***************************************************************************)
MaxClock == 2

\* Python's None, a value no string equals
None == <<"<None>">>

Sep == "/"

RootDir == <<Sep>>

\* paths used as inputs
ExecFile    == <<Sep, "e">>
MissingPath == <<Sep, "n">>
DataFile    == <<Sep, "d">>
ModelFile   == <<Sep, "m">>
OtherFile   == <<Sep, "f">>
OutDir      == <<Sep, "o">>
OutDirSlash == <<Sep, "o", Sep>>
OutNested   == <<Sep, "o", Sep, "s">>
EmptyStr    == << >>

\* the regular files on disk (the script creates and removes none)
files == {ExecFile, DataFile, ModelFile, OtherFile}

ExecOptions   == {None, ExecFile, MissingPath, OutDir}
DataOptions   == {None, DataFile, MissingPath}
ModelOptions  == {None, ModelFile}
OutputOptions == {None, EmptyStr, OutDir, OutDirSlash, OutNested, OtherFile}
InitialDirs   == {{RootDir}, {RootDir, OutDir}}

\* what the external process may write and return
Texts     == {<< >>, <<"A">>, <<"B">>, <<"A", "\r", "\n", "B">>, <<"A", "\r", "B", "\n">>}
ExitCodes == {0, 1, 7}

NoExc  == "NoExc"

\* the exception of line 68
ConfigurationError == "Exception: Could not find lightgbm exec"
NoCall == [stdout |-> None, stderr |-> None, returncode |-> -1]
NoProc == [state |-> "none", cmdline |-> << >>, out |-> << >>, err |-> << >>, code |-> -1]

(***************************************************************************)
(* Library functions the script calls                                      *)
(***************************************************************************)
\* bool(s) of a str or None: the test of "if args.output:"
Truthy(s) == s # None /\ s # EmptyStr

\* a path without its trailing separators (the root stays)
RECURSIVE StripSep(_)
StripSep(p) ==
    IF Len(p) > 1 /\ p[Len(p)] = Sep THEN StripSep(SubSeq(p, 1, Len(p) - 1)) ELSE p

\* the directories above p, the root included
Ancestors(p) ==
    {RootDir} \cup {SubSeq(p, 1, i - 1) : i \in {j \in 2..Len(StripSep(p)) : p[j] = Sep}}

\* os.path.isfile
isfile(p) == p \in files

\* os.path.isdir
isdir(p, ds) == StripSep(p) \in ds

\* os.makedirs(p, exist_ok=True) raises when p or a directory above it is a regular file
makedirs_fails(p) == StripSep(p) \in files \/ Ancestors(p) \cap files # {}

\* os.makedirs(p, exist_ok=True): p and every missing directory above it
makedirs(p, ds) == ds \cup Ancestors(p) \cup {StripSep(p)}

\* os.path.join(a, b)
os_path_join(a, b) ==
    IF Len(b) > 0 /\ b[1] = Sep THEN b
    ELSE IF a = EmptyStr \/ a[Len(a)] = Sep THEN a \o b
    ELSE a \o <<Sep>> \o b

\* "{v}" in an f-string
Format(v) == IF v = None THEN <<"None">> ELSE v

\* " ".join(tokens)
RECURSIVE Join(_)
Join(tokens) ==
    IF Len(tokens) = 0 THEN << >>
    ELSE IF Len(tokens) = 1 THEN tokens[1]
    ELSE tokens[1] \o <<" ">> \o Join(Tail(tokens))

\* universal_newlines=True: "\r\n" and "\r" read from the pipe become "\n"
RECURSIVE TranslateNewlines(_)
TranslateNewlines(s) ==
    IF Len(s) = 0 THEN << >>
    ELSE IF s[1] = "\r" /\ Len(s) > 1 /\ s[2] = "\n"
         THEN <<"\n">> \o TranslateNewlines(SubSeq(s, 3, Len(s)))
    ELSE IF s[1] = "\r" THEN <<"\n">> \o TranslateNewlines(Tail(s))
    ELSE <<s[1]>> \o TranslateNewlines(Tail(s))

\* common.io.input_file_path: the argparse type of --data and --model
input_file_path_ok(p) == p \in files

\* LogTimeBlock.__exit__: the record emitted for the block
LogTimeBlockRecord(start, now) ==
    [name |-> "inferencing", framework |-> "lightgbm_cli", task |-> "score",
     value |-> now - start]

(***************************************************************************)
(* Initial state                                                           *)
(***************************************************************************)
Init ==
    /\ cli \in [lightgbm_exec : ExecOptions, data : DataOptions,
                model : ModelOptions, output : OutputOptions]
    /\ args = [lightgbm_exec |-> None, data |-> None, model |-> None, output |-> None]
    /\ dirs0 \in InitialDirs
    /\ dirs = dirs0
    /\ pc = "main"
    /\ exc = NoExc
    /\ lightgbm_cli_command = << >>
    /\ proc = NoProc
    /\ nstarted = 0
    /\ lightgbm_cli_call = NoCall
    /\ printed = << >>
    /\ clock = 0
    /\ block = [entered |-> FALSE, start |-> 0]
    /\ metrics = << >>
    /\ exitStatus = -1

(***************************************************************************)
(* main(): parse_known_args                                                *)
(***************************************************************************)
ParseFails ==
    \/ cli.lightgbm_exec = None
    \/ cli.data = None
    \/ ~input_file_path_ok(cli.data)
    \/ (cli.model # None /\ ~input_file_path_ok(cli.model))

ParseArgs ==
    /\ pc = "main"
    /\ IF ParseFails
       THEN /\ pc' = "exited"
            /\ exitStatus' = 2
            /\ args' = args
       ELSE /\ pc' = "makedirs"
            /\ args' = [lightgbm_exec |-> cli.lightgbm_exec, data |-> cli.data,
                        model |-> cli.model, output |-> cli.output]
            /\ exitStatus' = exitStatus
    /\ UNCHANGED <<cli, dirs0, dirs, exc, lightgbm_cli_command, proc, nstarted,
                   lightgbm_cli_call, printed, clock, block, metrics>>

(***************************************************************************)
(* run()                                                                   *)
(***************************************************************************)
\* faulty variant: the executable is checked before the directory is created
MakeOutputDir_checkFirst ==
    /\ pc = "makedirs"
    /\ IF ~isfile(args.lightgbm_exec)
       THEN /\ exc' = ConfigurationError
            /\ pc' = "raised"
            /\ UNCHANGED <<dirs, args>>
       ELSE /\ pc' = "check"
            /\ exc' = exc
            /\ IF Truthy(args.output)
               THEN /\ dirs' = makedirs(args.output, dirs)
                    /\ args' = [args EXCEPT !.output = os_path_join(@, <<"predictions.txt">>)]
               ELSE UNCHANGED <<dirs, args>>
    /\ UNCHANGED <<cli, dirs0, lightgbm_cli_command, proc, nstarted,
                   lightgbm_cli_call, printed, clock, block, metrics, exitStatus>>

\* faulty variant: the file name is derived but the directory is not created
MakeOutputDir_noMakedirs ==
    /\ pc = "makedirs"
    /\ IF Truthy(args.output)
       THEN args' = [args EXCEPT !.output = os_path_join(@, <<"predictions.txt">>)]
       ELSE args' = args
    /\ pc' = "check"
    /\ UNCHANGED <<cli, dirs0, dirs, exc, lightgbm_cli_command, proc, nstarted,
                   lightgbm_cli_call, printed, clock, block, metrics, exitStatus>>

\* lines 63-65
MakeOutputDir ==
    /\ pc = "makedirs"
    /\ IF Truthy(args.output)
       THEN IF makedirs_fails(args.output)
            THEN /\ exc' = "OSError"
                 /\ pc' = "raised"
                 /\ UNCHANGED <<dirs, args>>
            ELSE /\ dirs' = makedirs(args.output, dirs)
                 /\ args' = [args EXCEPT !.output = os_path_join(@, <<"predictions.txt">>)]
                 /\ pc' = "check"
                 /\ exc' = exc
       ELSE /\ pc' = "check"
            /\ UNCHANGED <<dirs, args, exc>>
    /\ UNCHANGED <<cli, dirs0, lightgbm_cli_command, proc, nstarted,
                   lightgbm_cli_call, printed, clock, block, metrics, exitStatus>>

\* lines 67-68
CheckExec ==
    /\ pc = "check"
    /\ IF ~isfile(args.lightgbm_exec)
       THEN /\ exc' = ConfigurationError
            /\ pc' = "raised"
       ELSE /\ pc' = "build"
            /\ exc' = exc
    /\ UNCHANGED <<cli, args, dirs0, dirs, lightgbm_cli_command, proc, nstarted,
                   lightgbm_cli_call, printed, clock, block, metrics, exitStatus>>

\* faulty variant: the model token is left out
BuildList_noModel(a) ==
    LET base == << a.lightgbm_exec,
                   <<"task=prediction">>,
                   <<"data=">> \o Format(a.data),
                   <<"verbosity=2">> >>
    IN IF Truthy(a.output)
       THEN Append(base, <<"output_result=">> \o Format(a.output))
       ELSE base

\* faulty variant: the output token is appended without the test of line 77
BuildList_alwaysOutput(a) ==
    << a.lightgbm_exec,
       <<"task=prediction">>,
       <<"data=">> \o Format(a.data),
       <<"input_model=">> \o Format(a.model),
       <<"verbosity=2">>,
       <<"output_result=">> \o Format(a.output) >>

\* the list of lines 70-78
BuildList(a) ==
    LET base == << a.lightgbm_exec,
                   <<"task=prediction">>,
                   <<"data=">> \o Format(a.data),
                   <<"input_model=">> \o Format(a.model),
                   <<"verbosity=2">> >>
    IN IF Truthy(a.output)
       THEN Append(base, <<"output_result=">> \o Format(a.output))
       ELSE base

\* lines 70-82
BuildCommand ==
    /\ pc = "build"
    /\ lightgbm_cli_command' = BuildList(args)
    /\ printed' = Append(printed, <<"Running .predict()">>)
    /\ pc' = "enter"
    /\ UNCHANGED <<cli, args, dirs0, dirs, exc, proc, nstarted,
                   lightgbm_cli_call, clock, block, metrics, exitStatus>>

\* line 83: with LogTimeBlock(...): __enter__
EnterTimeBlock ==
    /\ pc = "enter"
    /\ block' = [entered |-> TRUE, start |-> clock]
    /\ pc' = "call"
    /\ UNCHANGED <<cli, args, dirs0, dirs, exc, lightgbm_cli_command, proc, nstarted,
                   lightgbm_cli_call, printed, clock, metrics, exitStatus>>

\* faulty variant: no with statement, an exception of the call skips the block's exit
SubprocessStart_noWith ==
    /\ pc = "call"
    /\ \/ /\ proc' = [NoProc EXCEPT !.state = "running",
                                     !.cmdline = Join(lightgbm_cli_command)]
          /\ nstarted' = nstarted + 1
          /\ pc' = "wait"
          /\ exc' = exc
       \/ /\ exc' = "OSError"
          /\ pc' = "raised"
          /\ UNCHANGED <<proc, nstarted>>
    /\ UNCHANGED <<cli, args, dirs0, dirs, lightgbm_cli_command,
                   lightgbm_cli_call, printed, clock, block, metrics, exitStatus>>

\* lines 84-91: subprocess_run starts the process, or Popen raises OSError
SubprocessStart ==
    /\ pc = "call"
    /\ \/ /\ proc' = [NoProc EXCEPT !.state = "running",
                                     !.cmdline = Join(lightgbm_cli_command)]
          /\ nstarted' = nstarted + 1
          /\ pc' = "wait"
          /\ exc' = exc
       \/ /\ exc' = "OSError"
          /\ pc' = "exit_block"
          /\ UNCHANGED <<proc, nstarted>>
    /\ UNCHANGED <<cli, args, dirs0, dirs, lightgbm_cli_command,
                   lightgbm_cli_call, printed, clock, block, metrics, exitStatus>>

\* the external tool writes its output and terminates
ProcTerminates ==
    /\ proc.state = "running"
    /\ \E out \in Texts, err \in Texts, code \in ExitCodes :
          proc' = [proc EXCEPT !.state = "terminated", !.out = out, !.err = err,
                               !.code = code]
    /\ UNCHANGED <<cli, args, dirs0, dirs, pc, exc, lightgbm_cli_command, nstarted,
                   lightgbm_cli_call, printed, clock, block, metrics, exitStatus>>

\* faulty variant: check=True, a non-zero exit code raises CalledProcessError
SubprocessWait_check ==
    /\ pc = "wait"
    /\ proc.state = "terminated"
    /\ IF proc.code # 0
       THEN /\ exc' = "CalledProcessError"
            /\ pc' = "exit_block"
            /\ lightgbm_cli_call' = lightgbm_cli_call
       ELSE /\ lightgbm_cli_call' = [stdout |-> TranslateNewlines(proc.out),
                                     stderr |-> TranslateNewlines(proc.err),
                                     returncode |-> proc.code]
            /\ pc' = "emit"
            /\ exc' = exc
    /\ UNCHANGED <<cli, args, dirs0, dirs, lightgbm_cli_command, proc, nstarted,
                   printed, clock, block, metrics, exitStatus>>

\* faulty variant: stderr=STDOUT, the two streams are captured as one
SubprocessWait_merged ==
    /\ pc = "wait"
    /\ proc.state = "terminated"
    /\ lightgbm_cli_call' = [stdout |-> TranslateNewlines(proc.out \o proc.err),
                             stderr |-> << >>,
                             returncode |-> proc.code]
    /\ pc' = "emit"
    /\ UNCHANGED <<cli, args, dirs0, dirs, exc, lightgbm_cli_command, proc, nstarted,
                   printed, clock, block, metrics, exitStatus>>

\* faulty variant: a timeout, the process still running is killed and TimeoutExpired raised
SubprocessWait_timeout ==
    /\ pc = "wait"
    /\ IF proc.state = "terminated"
       THEN /\ lightgbm_cli_call' = [stdout |-> TranslateNewlines(proc.out),
                                     stderr |-> TranslateNewlines(proc.err),
                                     returncode |-> proc.code]
            /\ pc' = "emit"
            /\ UNCHANGED <<exc, proc>>
       ELSE /\ proc' = [proc EXCEPT !.state = "killed"]
            /\ exc' = "TimeoutExpired"
            /\ pc' = "exit_block"
            /\ lightgbm_cli_call' = lightgbm_cli_call
    /\ UNCHANGED <<cli, args, dirs0, dirs, lightgbm_cli_command, nstarted,
                   printed, clock, block, metrics, exitStatus>>

\* lines 84-91: subprocess_run returns once the process has terminated
\* (timeout=None, check=False)
SubprocessWait ==
    /\ pc = "wait"
    /\ proc.state = "terminated"
    /\ lightgbm_cli_call' = [stdout |-> TranslateNewlines(proc.out),
                             stderr |-> TranslateNewlines(proc.err),
                             returncode |-> proc.code]
    /\ pc' = "emit"
    /\ UNCHANGED <<cli, args, dirs0, dirs, exc, lightgbm_cli_command, proc, nstarted,
                   printed, clock, block, metrics, exitStatus>>

\* lines 92-94
EmitResult ==
    /\ pc = "emit"
    /\ printed' = printed \o
          << <<"LightGBM stdout: ">> \o lightgbm_cli_call.stdout,
             <<"LightGBM stderr: ">> \o lightgbm_cli_call.stderr,
             <<"LightGBM return code: ", ToString(lightgbm_cli_call.returncode)>> >>
    /\ pc' = "exit_block"
    /\ UNCHANGED <<cli, args, dirs0, dirs, exc, lightgbm_cli_command, proc, nstarted,
                   lightgbm_cli_call, clock, block, metrics, exitStatus>>

\* line 83: the with statement leaves the block: __exit__ runs whether the body
\* returned or raised, and the exception, if any, goes on propagating
ExitTimeBlock ==
    /\ pc = "exit_block"
    /\ metrics' = Append(metrics, LogTimeBlockRecord(block.start, clock))
    /\ pc' = IF exc # NoExc THEN "raised" ELSE "returned"
    /\ UNCHANGED <<cli, args, dirs0, dirs, exc, lightgbm_cli_command, proc, nstarted,
                   lightgbm_cli_call, printed, clock, block, exitStatus>>

\* faulty variant: sys.exit(returncode), the external exit code becomes the exit status
MainReturn_propagate ==
    /\ pc = "returned"
    /\ pc' = "exited"
    /\ exitStatus' = lightgbm_cli_call.returncode
    /\ UNCHANGED <<cli, args, dirs0, dirs, exc, lightgbm_cli_command, proc, nstarted,
                   lightgbm_cli_call, printed, clock, block, metrics>>

\* lines 108-112: run() returned, main() returns, the interpreter exits
MainReturn ==
    /\ pc = "returned"
    /\ pc' = "exited"
    /\ exitStatus' = 0
    /\ UNCHANGED <<cli, args, dirs0, dirs, exc, lightgbm_cli_command, proc, nstarted,
                   lightgbm_cli_call, printed, clock, block, metrics>>

\* lines 108-112: an exception leaves run() and main() uncaught
Uncaught ==
    /\ pc = "raised"
    /\ pc' = "exited"
    /\ exitStatus' = 1
    /\ UNCHANGED <<cli, args, dirs0, dirs, exc, lightgbm_cli_command, proc, nstarted,
                   lightgbm_cli_call, printed, clock, block, metrics>>

\* time passes
Tick ==
    /\ pc # "exited"
    /\ clock < MaxClock
    /\ clock' = clock + 1
    /\ UNCHANGED <<cli, args, dirs0, dirs, pc, exc, lightgbm_cli_command, proc, nstarted,
                   lightgbm_cli_call, printed, block, metrics, exitStatus>>

\* the steps of the calling thread
Component ==
    \/ ParseArgs
    \/ MakeOutputDir
    \/ CheckExec
    \/ BuildCommand
    \/ EnterTimeBlock
    \/ SubprocessStart
    \/ SubprocessWait
    \/ EmitResult
    \/ ExitTimeBlock
    \/ MainReturn
    \/ Uncaught

Next == Component \/ ProcTerminates \/ Tick

Spec == Init /\ [][Next]_vars

\* the calling thread runs whenever it is not blocked; nothing makes the
\* external tool terminate
FairSpec == Spec /\ WF_vars(Component)

(***************************************************************************)
(* Properties                                                              *)
(***************************************************************************)
\* run() was called: the command line parsed
RunInvoked == args.lightgbm_exec # None

\* run() returned normally
RunCompleted == pc = "returned" \/ (pc = "exited" /\ exitStatus = 0)

\* p is the first fragment of token t
HasPrefix(t, p) == Len(t) > 0 /\ t[1] = p

IsOutputToken(t) == HasPrefix(t, "output_result=")

OutputTokens == {i \in 1..Len(lightgbm_cli_command) : IsOutputToken(lightgbm_cli_command[i])}

\* <dir>/predictions.txt, the separator added only after a <dir> that does not end in one
PredictionsIn(dir) ==
    IF dir[Len(dir)] = Sep THEN dir \o <<"predictions.txt">>
    ELSE dir \o <<Sep, "predictions.txt">>

\* C1: a run() whose executable path names no existing file fails with the
\* configuration error, and no subprocess is started in it.
C1_MissingExecIsConfigurationError ==
    (RunInvoked /\ ~isfile(cli.lightgbm_exec)) =>
        /\ nstarted = 0
        /\ proc.state = "none"
        /\ pc \in {"makedirs", "check", "raised", "exited"}
        /\ (pc \in {"raised", "exited"} => exc = ConfigurationError)

\* C2: the command built is, in order, the executable path, task=prediction,
\* data=<data path>, input_model=<model path>, verbosity=2 and then at most one
\* output_result= token; a model that was given appears in it.
C2_CommandShape ==
    (lightgbm_cli_command # << >>) =>
        /\ Len(lightgbm_cli_command) \in {5, 6}
        /\ lightgbm_cli_command[1] = cli.lightgbm_exec
        /\ lightgbm_cli_command[2] = <<"task=prediction">>
        /\ lightgbm_cli_command[3] = <<"data=">> \o cli.data
        /\ lightgbm_cli_command[4] =
              <<"input_model=">> \o (IF cli.model = None THEN <<"None">> ELSE cli.model)
        /\ lightgbm_cli_command[5] = <<"verbosity=2">>
        /\ OutputTokens \subseteq {6}
        /\ (Len(lightgbm_cli_command) = 6 => OutputTokens = {6})
        /\ isfile(cli.lightgbm_exec)

C2_Witness ==
    /\ pc = "exited"
    /\ cli.model = ModelFile
    /\ Len(lightgbm_cli_command) = 6
    /\ lightgbm_cli_command[4] = <<"input_model=", Sep, "m">>

\* C3 as stated: whenever --output=<dir> was given and run() has completed, <dir>
\* is a directory and the command holds the token output_result=<dir>/predictions.txt.
C3_Original ==
    (RunCompleted /\ cli.output # None) =>
        /\ isdir(cli.output, dirs)
        /\ \E i \in 1..Len(lightgbm_cli_command) :
              lightgbm_cli_command[i] =
                  <<"output_result=">> \o cli.output \o <<Sep, "predictions.txt">>

\* C3 amended: whenever a non-empty --output=<dir> was given and run() has
\* completed, <dir> is a directory (created with the directories above it if it
\* was absent, nothing else changed) and the last token of the command is
\* output_result= followed by <dir> joined with predictions.txt, no separator
\* being added after a <dir> that ends in one.
C3_OutputDirAndToken ==
    (RunCompleted /\ cli.output # None /\ cli.output # EmptyStr) =>
        /\ isdir(cli.output, dirs)
        /\ dirs0 \subseteq dirs
        /\ \A d \in dirs \ dirs0 : d = StripSep(cli.output) \/ d \in Ancestors(cli.output)
        /\ Len(lightgbm_cli_command) = 6
        /\ lightgbm_cli_command[6] = <<"output_result=">> \o PredictionsIn(cli.output)

C3_Witness ==
    /\ pc = "exited"
    /\ exitStatus = 0
    /\ cli.output = OutNested
    /\ dirs0 = {RootDir}
    /\ dirs = {RootDir, OutDir, OutNested}
    /\ lightgbm_cli_command[6] = <<"output_result=", Sep, "o", Sep, "s", Sep, "predictions.txt">>

\* C4: when --output is omitted the command holds no output_result= token and
\* run() creates no directory.
C4_NoOutputNoTokenNoDir ==
    (RunInvoked /\ cli.output = None) =>
        /\ OutputTokens = {}
        /\ dirs = dirs0
        /\ args.output = None

C4_Witness ==
    /\ pc = "exited"
    /\ exitStatus = 0
    /\ cli.output = None
    /\ Len(lightgbm_cli_command) = 5

\* C5: whatever exit code the external process returns, the captured result
\* records that code, run() raises nothing, one subprocess and no more was
\* started, and the component goes on to complete.
C5_ExitCodeRecorded ==
    /\ [](nstarted <= 1)
    /\ [](proc.state = "terminated" => (nstarted = 1 /\ exc = NoExc))
    /\ [](lightgbm_cli_call # NoCall =>
            (proc.state = "terminated" /\ lightgbm_cli_call.returncode = proc.code))
    /\ (proc.state = "terminated") ~>
            (pc = "exited" /\ exc = NoExc /\ lightgbm_cli_call.returncode = proc.code)

C5_Witness ==
    /\ pc = "exited"
    /\ proc.code = 7
    /\ lightgbm_cli_call.returncode = 7
    /\ exc = NoExc
    /\ nstarted = 1

\* C6: once the external process was started and has terminated, the component
\* exits with status 0, whatever the external exit code was.
C6_ExitStatusZero ==
    (pc = "exited" /\ proc.state = "terminated") => exitStatus = 0

C6_Witness ==
    /\ pc = "exited"
    /\ proc.state = "terminated"
    /\ proc.code = 7
    /\ exitStatus = 0

\* C7: the timing block is entered only after the executable check has passed,
\* and every entry is followed by exactly one exit record that carries the
\* time elapsed since the entry, when the subprocess returns (any exit code)
\* and when the call raises.
C7_TimeBlockAlwaysExits ==
    /\ [](block.entered =>
            (isfile(args.lightgbm_exec) /\ pc \notin {"main", "makedirs", "check", "build", "enter"}))
    /\ [](Len(metrics) <= 1 /\ (Len(metrics) = 1 => block.entered))
    /\ []((block.entered /\ pc \in {"returned", "raised", "exited"}) => Len(metrics) = 1)
    /\ [][metrics' # metrics =>
            /\ metrics = << >>
            /\ metrics' = << [name |-> "inferencing", framework |-> "lightgbm_cli",
                              task |-> "score", value |-> clock - block.start] >>]_vars
    /\ (block.entered /\ (proc.state = "terminated" \/ exc # NoExc)) ~> (Len(metrics) = 1)

C7_Witness ==
    /\ pc = "exited"
    /\ exc = "OSError"
    /\ block.entered
    /\ block.start = 1
    /\ Len(metrics) = 1
    /\ metrics[1].value = 1

\* the characters of s that are not line endings
Content(s) == SelectSeq(s, LAMBDA ch : ch \notin {"\r", "\n"})

HasCR(s) == \E i \in 1..Len(s) : s[i] = "\r"

\* the three lines of lines 92-94, for a captured result r
ResultLines(r) ==
    << <<"LightGBM stdout: ">> \o r.stdout,
       <<"LightGBM stderr: ">> \o r.stderr,
       <<"LightGBM return code: ", ToString(r.returncode)>> >>

\* C8 as stated: the captured stdout and stderr are the texts the process
\* wrote, unchanged.
C8_Original ==
    (lightgbm_cli_call # NoCall) =>
        /\ lightgbm_cli_call.stdout = proc.out
        /\ lightgbm_cli_call.stderr = proc.err

\* C8 amended: the captured stdout and stderr are the texts the process wrote
\* with every \r\n and every \r turned into \n and nothing else changed, each
\* stream in its own field, and both are printed with the return code after
\* the process has terminated.
C8_CapturedStreams ==
    /\ (lightgbm_cli_call # NoCall) =>
        /\ proc.state = "terminated"
        /\ lightgbm_cli_call.stdout = TranslateNewlines(proc.out)
        /\ lightgbm_cli_call.stderr = TranslateNewlines(proc.err)
        /\ Content(lightgbm_cli_call.stdout) = Content(proc.out)
        /\ Content(lightgbm_cli_call.stderr) = Content(proc.err)
        /\ ~HasCR(lightgbm_cli_call.stdout) /\ ~HasCR(lightgbm_cli_call.stderr)
        /\ (~HasCR(proc.out) => lightgbm_cli_call.stdout = proc.out)
        /\ (~HasCR(proc.err) => lightgbm_cli_call.stderr = proc.err)
    /\ (Len(printed) > 1) =>
        /\ lightgbm_cli_call # NoCall
        /\ printed = << <<"Running .predict()">> >> \o ResultLines(lightgbm_cli_call)
    /\ (lightgbm_cli_call # NoCall /\ pc # "emit") => Len(printed) = 4

C8_Witness ==
    /\ pc = "exited"
    /\ proc.out = <<"A", "\r", "\n", "B">>
    /\ proc.err = <<"B">>
    /\ lightgbm_cli_call.stdout = <<"A", "\n", "B">>
    /\ lightgbm_cli_call.stderr = <<"B">>
    /\ Len(printed) = 4

\* C9: the component waits for the subprocess without timeout or cancellation:
\* it is past the call only when the external process has terminated, it stays
\* in the call while the process runs, only the process itself ends the
\* process, and once the process has terminated the component emits the
\* result and exits.
C9_BlocksUntilTermination ==
    /\ []((nstarted > 0 /\ pc # "wait") => proc.state = "terminated")
    /\ [](proc.state \in {"none", "running", "terminated"})
    /\ [][proc.state = "running" =>
            \/ (proc'.state = "running" /\ pc' = "wait")
            \/ (proc'.state = "terminated" /\ proc'.code \in ExitCodes /\ pc' = "wait")]_vars
    /\ (proc.state = "terminated") ~> (pc = "exited" /\ Len(printed) = 4)

C9_Witness ==
    /\ pc = "wait"
    /\ proc.state = "running"
    /\ block.start = 0
    /\ clock = 2

\* C10 as stated: when the configuration error is raised in an invocation
\* that was given --output=<dir>, <dir> exists.
C10_Original ==
    (exc = ConfigurationError /\ cli.output # None) => isdir(cli.output, dirs)

\* C10 amended: when the configuration error is raised in an invocation that
\* was given a non-empty --output=<dir>, <dir> exists: the directory was
\* created before the executable was checked, so the filesystem has changed
\* on that error path whenever <dir> did not exist before.
C10_DirCreatedBeforeCheck ==
    (exc = ConfigurationError /\ cli.output # None /\ cli.output # EmptyStr) =>
        /\ isdir(cli.output, dirs)
        /\ dirs0 \subseteq dirs
        /\ (~isdir(cli.output, dirs0) => dirs # dirs0)
        /\ args.output = PredictionsIn(cli.output)
        /\ nstarted = 0

C10_Witness ==
    /\ pc = "exited"
    /\ exitStatus = 1
    /\ exc = ConfigurationError
    /\ cli.lightgbm_exec = MissingPath
    /\ cli.output = OutDir
    /\ dirs0 = {RootDir}
    /\ dirs = {RootDir, OutDir}

====
